---- MODULE Spec2Model ----
(***************************************************************************)
(* Co2Predicts backend: the emissions data processor and its model trainer *)
(* (data/data_processor.py, ml/model_trainer.py) as served by the request  *)
(* handlers of main.py, the time-series forecaster (ml/predictor.py) and   *)
(* the recommendation scorer (ml/recommendations.py).                      *)
(*                                                                         *)
(* Three specifications share the module:                                  *)
(*   Spec     the processor, its trainer and the handlers that use them    *)
(*   SpecFc   CO2Predictor.train / predict                                 *)
(*   SpecRec  EmissionRecommendations.get_recommendations                  *)
(***************************************************************************)
EXTENDS Integers, Sequences, FiniteSets, TLC

VARIABLES
    \* EmissionsDataProcessor (data_processor.py:9-13)
    data, years, countries,
    \* EmissionsModelTrainer (model_trainer.py:13-22)
    scaler, linear_model, rf_model,
    \* the handler the event loop is running, and where it is
    handler, pc, X, linear_cv, rf_cv,
    \* predict requests that arrived while a handler was running
    waiting,
    \* what the last finished handler returned
    response,
    \* history: the trainer when the current pass began, how the last pass
    \* ended, whether a pass / a load_data call has ever completed
    before, outcome, trained, loaded, source,
    \* history: whether the last load_data call left data, years or countries
    \* other than it found them
    load_changed,
    \* CO2Predictor and its predict call (predictor.py)
    is_trained, series, years_ahead, fc_pc, step, last_emission,
    current_features, features_used, predictions, fc_result,
    \* get_recommendations: its arguments and its result (recommendations.py)
    current_emissions, historical_trend, industry_breakdown, hash_seed,
    rec_result

procVars == <<data, years, countries, scaler, linear_model, rf_model, handler,
              pc, X, linear_cv, rf_cv, waiting, response, before, outcome,
              trained, loaded, source, load_changed>>
fcVars == <<is_trained, series, years_ahead, fc_pc, step, last_emission,
            current_features, features_used, predictions, fc_result>>
recVars == <<current_emissions, historical_trend, industry_breakdown,
             hash_seed, rec_result>>
vars == <<procVars, fcVars, recVars>>

(***************************************************************************)
(* Bounds of the model.                                                    *)
(***************************************************************************)
\* the largest number of complete country rows in a source
MaxRows == 10
\* predict requests that may queue up behind a running handler
MaxWaiting == 1

\* the longest series given to CO2Predictor, and the longest horizon asked
MaxSeries == 4
MaxHorizon == 2

\* the largest current_emissions, the longest historical_trend and the
\* number of orders the deduplicating set may come in, less one
MaxEmissions == 11
MaxHist == 2
MaxSeed == 1

\* a missing value (NaN) in a numeric column
NaN == 0 - 1

None == "None"

(***************************************************************************)
(* Data frames: the columns and the rows, a row a function on the columns. *)
(***************************************************************************)
\* data_processor.py:21-24 and model_trainer.py:27-30
Aggregates == <<"World", "Asia", "Europe", "Africa",
                "North America", "South America", "Oceania">>

AggregateSet == {Aggregates[i] : i \in DOMAIN Aggregates}

\* data_processor.py:27
required_columns == {"year", "country", "gdp", "population",
                     "energy_per_capita", "co2"}

\* model_trainer.py:21-22
features == {"gdp", "population", "energy_per_capita"}
target == "co2"

CountryNames == <<"X", "Y">>

\* the row counts the sources come in: none, too few to split, too few for
\* five folds, folds of one row, folds of two rows and more
RowCounts == {0, 1, 2, 5, MaxRows}

CountryRow(i) ==
    [country |-> CountryNames[((i - 1) % Len(CountryNames)) + 1],
     year |-> 2019 + ((i - 1) \div Len(CountryNames)),
     gdp |-> 100 + i, population |-> 10, energy_per_capita |-> 5,
     co2 |-> i, iso_code |-> 0]

AggregateRow(i) ==
    [country |-> Aggregates[i], year |-> 2019, gdp |-> 1000,
     population |-> 100, energy_per_capita |-> 5, co2 |-> 50, iso_code |-> 0]

IncompleteRow ==
    [country |-> "Y", year |-> 2018, gdp |-> NaN, population |-> 10,
     energy_per_capita |-> 5, co2 |-> 1, iso_code |-> 0]

DropColumn(row, col) == [c \in (DOMAIN row) \ {col} |-> row[c]]

\* A CSV source: whether it can be read, its columns and its rows. The
\* aggregate rows come first, then an incomplete row, then the country rows.
MkSource(readable, drop, n, agg, inc) ==
    LET all == (IF agg THEN [i \in 1..Len(Aggregates) |-> AggregateRow(i)]
                ELSE <<>>)
               \o (IF inc THEN <<IncompleteRow>> ELSE <<>>)
               \o [i \in 1..n |-> CountryRow(i)]
    IN [readable |-> readable,
        columns |-> (required_columns \cup {"iso_code"}) \ {drop},
        rows |-> [i \in 1..Len(all) |-> DropColumn(all[i], drop)]]

\* the sources loaded: complete ones of every size, with and without the
\* aggregate rows; one with an incomplete row; one without its country
\* column, one without its gdp column; one that cannot be read
Sources ==
    {MkSource(TRUE, "", n, agg, FALSE) : n \in RowCounts, agg \in BOOLEAN}
    \cup {MkSource(TRUE, "", 2, TRUE, TRUE),
          MkSource(TRUE, "country", 2, FALSE, FALSE),
          MkSource(TRUE, "gdp", 2, TRUE, FALSE),
          MkSource(FALSE, "", 0, FALSE, FALSE)}

\* every year a row of a source can carry
Years == 2018..(2019 + (MaxRows \div Len(CountryNames)))

\* the years and countries the queries of the model ask for
QueryYears == {2019, 2020}

QueryCountries == {"X", "World"}

\* sorted(values.unique().tolist()) of a set of integers or of strings
RECURSIVE SortedInts(_)
SortedInts(S) ==
    IF S = {} THEN <<>>
    ELSE LET m == CHOOSE x \in S : \A y \in S : x <= y
         IN <<m>> \o SortedInts(S \ {m})

\* the country names of the model, in the order Python sorts them
NameOrder == <<"Africa", "Asia", "Europe", "North America", "Oceania",
               "South America", "World", "X", "Y">>

NameRank(s) == CHOOSE i \in DOMAIN NameOrder : NameOrder[i] = s

RECURSIVE SortedNames(_)
SortedNames(S) ==
    IF S = {} THEN <<>>
    ELSE LET m == CHOOSE x \in S : \A y \in S : NameRank(x) <= NameRank(y)
         IN <<m>> \o SortedNames(S \ {m})

Range(s) == {s[i] : i \in DOMAIN s}

Column(rows, col) == {rows[i][col] : i \in DOMAIN rows}


(***************************************************************************)
(* EmissionsModelTrainer: the fitted objects.  A fitted scaler or model is *)
(* identified by the prepared rows it was fitted from (fitting is          *)
(* deterministic: random_state=42), n is the number of rows it saw.        *)
(***************************************************************************)
\* self.data: None, or a frame of columns and rows
NoData == [none |-> TRUE, columns |-> {}, rows |-> <<>>]

Frame(columns, rows) == [none |-> FALSE, columns |-> columns, rows |-> rows]

Unfitted == [fitted |-> FALSE, on |-> <<>>, n |-> 0]

Fitted(rows, k) == [fitted |-> TRUE, on |-> rows, n |-> k]

Trainer == <<scaler, linear_model, rf_model>>

ModelTypes == {"linear", "random_forest", "xgboost"}

NoResponse == [op |-> "none", arg |-> None, status |-> "none",
               value |-> None, queued |-> FALSE]

Response(op, arg, status, value) ==
    [op |-> op, arg |-> arg, status |-> status, value |-> value,
     queued |-> FALSE]

NoOutcome == [status |-> "none", at |-> "none", n |-> 0, results |-> None]

\* DropAggregates with the last name of the list forgotten
DropAggregatesButLast(rows) ==
    SelectSeq(rows, LAMBDA r : r["country"] \notin
                  {Aggregates[i] : i \in 1..(Len(Aggregates) - 1)})

\* data_processor.py:21-24: self.data[~self.data['country'].isin([...])]
DropAggregates(rows) ==
    SelectSeq(rows, LAMBDA r : r["country"] \notin AggregateSet)

\* model_trainer.py:27-33: the aggregate filter again, then
\* df.dropna(subset=self.features + [self.target])
prepare_data(rows) ==
    SelectSeq(rows, LAMBDA r : /\ r["country"] \notin AggregateSet
                               /\ \A c \in features \cup {target} : r[c] # NaN)

\* self.data[required_columns]
Project(rows) ==
    [i \in DOMAIN rows |-> [c \in required_columns |-> rows[i][c]]]

\* train_test_split(test_size=0.2): n_test = ceil(0.2 n), n_train = n - n_test
TestSize(n) == (n + 4) \div 5

TrainSize(n) == (4 * n) \div 5

\* cv=5
n_splits == 5

\* KFold: the smallest of the five test folds
MinFold(n) == n \div n_splits

\* r2 of fewer than two samples is undefined (NaN)
R2(n) == IF n >= 2 THEN "finite" ELSE "nan"

\* cross_val_score(..., cv=5, scoring='r2'): one r2 per fold
CrossValScore(n) == R2(MinFold(n))

\* model_trainer.py:65-86
Results(n) ==
    [linear_regression |->
        [r2_score |-> R2(TestSize(n)), rmse |-> "finite",
         cv_scores_mean |-> linear_cv, cv_scores_std |-> linear_cv],
     random_forest |->
        [r2_score |-> R2(TestSize(n)), rmse |-> "finite",
         cv_scores_mean |-> rf_cv, cv_scores_std |-> rf_cv]]

Idle == pc = "idle" /\ waiting = {}

\* a handler ends with an exception: the event loop is free again
Raise(op, error, at) ==
    /\ pc' = "idle"
    /\ handler' = "none"
    /\ X' = <<>>
    /\ linear_cv' = "none"
    /\ rf_cv' = "none"
    /\ response' = Response(op, None, error, None)
    /\ outcome' = [status |-> "failed", at |-> at, n |-> Len(X),
                   results |-> None]

\* a handler calls train_and_evaluate
BeginPass(h) ==
    /\ handler' = h
    /\ pc' = "prepare_data"
    /\ X' = <<>>
    /\ linear_cv' = "none"
    /\ rf_cv' = "none"
    /\ before' = Trainer
    /\ outcome' = NoOutcome
    /\ response' = NoResponse

(***************************************************************************)
(* EmissionsDataProcessor.load_data, lines 17-35, called by startup_event  *)
(* (h = "load_data") or by upload_data; the training it ends with is the   *)
(* pass below.                                                             *)
(***************************************************************************)
LoadData(src, h) ==
    /\ UNCHANGED <<fcVars, recVars>>
    /\ Idle
    /\ UNCHANGED <<scaler, linear_model, rf_model, waiting, trained, loaded>>
    /\ source' = src
    /\ IF ~src.readable
       THEN \* pd.read_csv raises: nothing was assigned
            /\ Raise("load_data", "IOError", "read_csv")
            /\ UNCHANGED <<data, years, countries, before>>
       ELSE IF "country" \notin src.columns
       THEN \* line 21 raises KeyError: self.data is the raw frame of line 18
            /\ data' = Frame(src.columns, src.rows)
            /\ Raise("load_data", "KeyError", "drop_aggregates")
            /\ UNCHANGED <<years, countries, before>>
       ELSE IF ~(required_columns \subseteq src.columns)
       THEN \* line 29 raises ValueError: self.data is the filtered frame
            /\ data' = Frame(src.columns, DropAggregates(src.rows))
            /\ Raise("load_data", "ValueError", "required_columns")
            /\ UNCHANGED <<years, countries, before>>
       ELSE /\ data' = Frame(required_columns,
                          Project(DropAggregates(src.rows)))
            /\ years' = SortedInts(Column(data'.rows, "year"))
            /\ countries' = SortedNames(Column(data'.rows, "country"))
            /\ BeginPass(h)
    /\ load_changed' =
          (<<data', years', countries'>> # <<data, years, countries>>)

(***************************************************************************)
(* EmissionsModelTrainer.train_and_evaluate, one action per statement that *)
(* can raise or that assigns to the trainer.                               *)
(***************************************************************************)
\* prepare_data, lines 27-37
PrepareData ==
    /\ UNCHANGED <<fcVars, recVars>>
    /\ pc = "prepare_data"
    /\ UNCHANGED <<data, years, countries, linear_model, rf_model, waiting,
                   before, trained, loaded, source,
                   load_changed>>
    /\ IF ~((features \cup {target, "country"}) \subseteq data.columns)
       THEN \* df['country'] or dropna(subset=...) raises KeyError
            /\ Raise(handler, "KeyError", "prepare_data")
            /\ UNCHANGED scaler
       ELSE LET rows == prepare_data(data.rows)
            IN IF Len(rows) = 0
               THEN \* StandardScaler.fit resets the scaler, then rejects an
                    \* array of 0 samples
                    /\ scaler' = Unfitted
                    /\ Raise(handler, "ValueError", "prepare_data")
               ELSE /\ scaler' = Fitted(rows, Len(rows))
                    /\ X' = rows
                    /\ pc' = "split"
                    /\ UNCHANGED <<handler, linear_cv, rf_cv, response, outcome>>

\* lines 46-48
Split ==
    /\ UNCHANGED <<fcVars, recVars>>
    /\ pc = "split"
    /\ UNCHANGED <<data, years, countries, scaler, linear_model, rf_model,
                   waiting, before, trained, loaded, source,
                   load_changed>>
    /\ IF TrainSize(Len(X)) = 0
       THEN \* "the resulting train set will be empty"
            Raise(handler, "ValueError", "split")
       ELSE /\ pc' = "fit_linear"
            /\ UNCHANGED <<handler, X, linear_cv, rf_cv, response, outcome>>

\* lines 51-52
FitLinear ==
    /\ UNCHANGED <<fcVars, recVars>>
    /\ pc = "fit_linear"
    /\ linear_model' = Fitted(X, TrainSize(Len(X)))
    /\ pc' = "cv_linear"
    /\ UNCHANGED <<data, years, countries, scaler, rf_model, handler, X,
                   linear_cv, rf_cv, waiting, response, before, outcome,
                   trained, loaded, source,
                   load_changed>>

\* lines 53-55: cross_val_score fits clones, the trainer's model is untouched
CvLinear ==
    /\ UNCHANGED <<fcVars, recVars>>
    /\ pc = "cv_linear"
    /\ UNCHANGED <<data, years, countries, scaler, linear_model, rf_model,
                   waiting, before, trained, loaded, source,
                   load_changed>>
    /\ IF Len(X) < n_splits
       THEN \* "Cannot have number of splits n_splits=5 greater than the
            \* number of samples"
            Raise(handler, "ValueError", "cv_linear")
       ELSE /\ linear_cv' = CrossValScore(Len(X))
            /\ pc' = "fit_rf"
            /\ UNCHANGED <<handler, X, rf_cv, response, outcome>>

\* lines 58-59
FitRf ==
    /\ UNCHANGED <<fcVars, recVars>>
    /\ pc = "fit_rf"
    /\ rf_model' = Fitted(X, TrainSize(Len(X)))
    /\ pc' = "cv_rf"
    /\ UNCHANGED <<data, years, countries, scaler, linear_model, handler, X,
                   linear_cv, rf_cv, waiting, response, before, outcome,
                   trained, loaded, source,
                   load_changed>>

\* lines 60-62
CvRf ==
    /\ UNCHANGED <<fcVars, recVars>>
    /\ pc = "cv_rf"
    /\ UNCHANGED <<data, years, countries, scaler, linear_model, rf_model,
                   waiting, before, trained, loaded, source,
                   load_changed>>
    /\ IF Len(X) < n_splits
       THEN Raise(handler, "ValueError", "cv_rf")
       ELSE /\ rf_cv' = CrossValScore(Len(X))
            /\ pc' = "metrics"
            /\ UNCHANGED <<handler, X, linear_cv, response, outcome>>

\* lines 65-88, and what the calling handler does with the results:
\* load_data returns; upload_data goes on to get_model_evaluation
\* (main.py:131-134), a second pass over the same data
Metrics ==
    /\ UNCHANGED <<fcVars, recVars>>
    /\ pc = "metrics"
    /\ trained' = TRUE
    /\ UNCHANGED <<data, years, countries, scaler, linear_model, rf_model,
                   waiting, source,
                   load_changed>>
    /\ IF handler = "upload_data"
       THEN /\ loaded' = TRUE
            /\ BeginPass("upload_data/get_model_evaluation")
       ELSE /\ loaded' = (loaded \/ handler = "load_data")
            /\ pc' = "idle"
            /\ handler' = "none"
            /\ X' = <<>>
            /\ linear_cv' = "none"
            /\ rf_cv' = "none"
            /\ outcome' = [status |-> "ok", at |-> "return", n |-> Len(X),
                           results |-> Results(Len(X))]
            /\ response' = Response(handler, None, "ok", Results(Len(X)))
            /\ UNCHANGED before


(***************************************************************************)
(* The handlers that start a pass on the data held: get_model_evaluation   *)
(* (data_processor.py:87-92, main.py:102-108) and train_models (43-48).    *)
(***************************************************************************)
TrainOnHeld(h) ==
    /\ UNCHANGED <<fcVars, recVars>>
    /\ Idle
    /\ UNCHANGED <<data, years, countries, scaler, linear_model, rf_model,
                   waiting, trained, loaded, source,
                   load_changed>>
    /\ IF data.none
       THEN /\ Raise(h, "NoData", "no_data")
            /\ UNCHANGED before
       ELSE BeginPass(h)

(***************************************************************************)
(* EmissionsModelTrainer.predict_emissions (model_trainer.py:90-108) as    *)
(* the /predict handler runs it (main.py:83-100): on the event loop, so    *)
(* after the handler that was running when the request arrived.            *)
(***************************************************************************)
\* line 100: transform of an unfitted scaler raises; lines 103-106: so does
\* predict of an unfitted model
PredictEmissions(model_type) ==
    LET model == IF model_type = "linear" THEN linear_model ELSE rf_model
    IN IF ~scaler.fitted \/ ~model.fitted
       THEN Response("predict_emissions", model_type, "NotFitted", None)
       ELSE Response("predict_emissions", model_type, "ok",
                     [scaler |-> scaler, model |-> model])

\* a /predict request arrives while a handler holds the event loop
Arrive(model_type) ==
    /\ UNCHANGED <<fcVars, recVars>>
    /\ pc # "idle"
    /\ Cardinality(waiting) < MaxWaiting
    /\ model_type \notin waiting
    /\ waiting' = waiting \cup {model_type}
    /\ UNCHANGED <<data, years, countries, scaler, linear_model, rf_model,
                   handler, pc, X, linear_cv, rf_cv, response, before,
                   outcome, trained, loaded, source,
                   load_changed>>

\* the event loop is free: the request that waited is served
ServeWaiting(model_type) ==
    /\ UNCHANGED <<fcVars, recVars>>
    /\ pc = "idle"
    /\ model_type \in waiting
    /\ waiting' = waiting \ {model_type}
    /\ response' = [PredictEmissions(model_type) EXCEPT !.queued = TRUE]
    /\ UNCHANGED <<data, years, countries, scaler, linear_model, rf_model,
                   handler, pc, X, linear_cv, rf_cv, before, outcome,
                   trained, loaded, source,
                   load_changed>>

\* the handler with scaler.fit_transform in place of scaler.transform: the
\* scaler is refitted to the one input row
PredictRefits(model_type) ==
    /\ UNCHANGED <<fcVars, recVars>>
    /\ Idle
    /\ response' = PredictEmissions(model_type)
    /\ scaler' = Fitted(<<>>, 1)
    /\ UNCHANGED <<data, years, countries, linear_model, rf_model,
                   handler, pc, X, linear_cv, rf_cv, waiting, before,
                   outcome, trained, loaded, source,
                   load_changed>>

Predict(model_type) ==
    /\ UNCHANGED <<fcVars, recVars>>
    /\ Idle
    /\ response' = PredictEmissions(model_type)
    /\ UNCHANGED <<data, years, countries, scaler, linear_model, rf_model,
                   handler, pc, X, linear_cv, rf_cv, waiting, before,
                   outcome, trained, loaded, source,
                   load_changed>>

(***************************************************************************)
(* The queries of EmissionsDataProcessor.                                  *)
(***************************************************************************)
\* data_processor.py:50-73
get_emissions_by_year(year) ==
    IF data.none THEN Response("get_emissions_by_year", year, "NoData", None)
    ELSE IF "year" \notin data.columns
    THEN Response("get_emissions_by_year", year, "KeyError", None)
    ELSE LET year_data == SelectSeq(data.rows, LAMBDA r : r["year"] = year)
         IN IF Len(year_data) > 0
               /\ ~({"country", "co2", "gdp", "population",
                     "energy_per_capita"} \subseteq data.columns)
            THEN Response("get_emissions_by_year", year, "KeyError", None)
            ELSE Response("get_emissions_by_year", year, "ok",
                          [i \in DOMAIN year_data |->
                              [name |-> year_data[i]["country"],
                               id |-> year_data[i]["country"]]])

\* data_processor.py:75-81
get_country_timeline(country) ==
    IF data.none
    THEN Response("get_country_timeline", country, "NoData", None)
    ELSE IF "country" \notin data.columns
    THEN Response("get_country_timeline", country, "KeyError", None)
    ELSE Response("get_country_timeline", country, "ok",
                  SelectSeq(data.rows, LAMBDA r : r["country"] = country))

\* data_processor.py:106-114; min and max skip missing values and are NaN
\* for an empty column
get_emissions_range ==
    IF data.none THEN Response("get_emissions_range", None, "NoData", None)
    ELSE IF "co2" \notin data.columns
    THEN Response("get_emissions_range", None, "KeyError", None)
    ELSE LET co2 == Column(data.rows, "co2") \ {NaN}
         IN Response("get_emissions_range", None, "ok",
                IF co2 = {} THEN [min |-> NaN, max |-> NaN]
                ELSE [min |-> CHOOSE x \in co2 : \A y \in co2 : x <= y,
                      max |-> CHOOSE x \in co2 : \A y \in co2 : x >= y])

\* data_processor.py:98-100
get_available_years == Response("get_available_years", None, "ok", years)

\* data_processor.py:102-104
get_available_countries ==
    Response("get_available_countries", None, "ok", countries)

\* data_processor.py:135-144: the files written are not part of the model
save_processed_data ==
    IF data.none THEN Response("save_processed_data", None, "NoData", None)
    ELSE Response("save_processed_data", None, "ok", None)

Query(r) ==
    /\ UNCHANGED <<fcVars, recVars>>
    /\ Idle
    /\ response' = r
    /\ UNCHANGED <<data, years, countries, scaler, linear_model, rf_model,
                   handler, pc, X, linear_cv, rf_cv, waiting, before,
                   outcome, trained, loaded, source,
                   load_changed>>

(***************************************************************************)
(* The processor and its handlers.                                         *)
(***************************************************************************)
InitProc ==
    /\ data = NoData
    /\ years = <<>>
    /\ countries = <<>>
    /\ scaler = Unfitted
    /\ linear_model = Unfitted
    /\ rf_model = Unfitted
    /\ handler = "none"
    /\ pc = "idle"
    /\ X = <<>>
    /\ linear_cv = "none"
    /\ rf_cv = "none"
    /\ waiting = {}
    /\ response = NoResponse
    /\ before = Trainer
    /\ outcome = NoOutcome
    /\ trained = FALSE
    /\ loaded = FALSE
    /\ source = MkSource(FALSE, "", 0, FALSE, FALSE)
    /\ load_changed = FALSE

NextProc ==
    \/ \E src \in Sources : LoadData(src, "load_data")
    \/ \E src \in Sources : LoadData(src, "upload_data")
    \/ TrainOnHeld("get_model_evaluation")
    \/ TrainOnHeld("train_models")
    \/ PrepareData
    \/ Split
    \/ FitLinear
    \/ CvLinear
    \/ FitRf
    \/ CvRf
    \/ Metrics
    \/ \E mt \in ModelTypes : Arrive(mt)
    \/ \E mt \in ModelTypes : ServeWaiting(mt)
    \/ \E mt \in ModelTypes : Predict(mt)
    \/ \E y \in QueryYears : Query(get_emissions_by_year(y))
    \/ \E c \in QueryCountries : Query(get_country_timeline(c))
    \/ Query(get_emissions_range)
    \/ Query(get_available_years)
    \/ Query(get_available_countries)
    \/ Query(save_processed_data)

(***************************************************************************)
(* CO2Predictor (ml/predictor.py).  A series is the country_data frame: a  *)
(* row per year with its co2_emissions, NaN where the value is missing.    *)
(* The fitted regressor is opaque: each prediction is any of PredValues.   *)
(***************************************************************************)
\* the emissions a series may hold, and the values the model may predict
Observed == {1, 2, NaN}

PredValues == {3, 4}

\* years are counted from 2000 (year 21 is 2021): year ** 3 stays small
SeriesRow(i, e) == [year |-> 20 + i, co2_emissions |-> e]

SeriesSet ==
    UNION {{[i \in 1..n |-> SeriesRow(i, e[i])] : e \in [1..n -> Observed]} :
              n \in 0..MaxSeries}

\* a complete series to train on; the predictor is also trained on the
\* series it is asked to extend
TrainingSeries == [i \in 1..3 |-> SeriesRow(i, 1)]

\* predictor.py:28-29: Series.shift(k), NaN for the first k rows
Shift(rows, k, i) == IF i - k >= 1 THEN rows[i - k].co2_emissions ELSE NaN

\* predictor.py:21-38: the engineered rows that survive dropna()
prepare_features(rows) ==
    LET full == [i \in DOMAIN rows |->
                    [year |-> rows[i].year,
                     year_squared |-> rows[i].year * rows[i].year,
                     year_cubed |-> rows[i].year * rows[i].year * rows[i].year,
                     co2_emissions |-> rows[i].co2_emissions,
                     emissions_lag1 |-> Shift(rows, 1, i),
                     emissions_lag2 |-> Shift(rows, 2, i)]]
        kept == SelectSeq(full, LAMBDA r : /\ r.co2_emissions # NaN
                                           /\ r.emissions_lag1 # NaN
                                           /\ r.emissions_lag2 # NaN)
    IN [i \in DOMAIN kept |->
           [year |-> kept[i].year, year_squared |-> kept[i].year_squared,
            year_cubed |-> kept[i].year_cubed,
            emissions_lag1 |-> kept[i].emissions_lag1,
            emissions_lag2 |-> kept[i].emissions_lag2]]

\* predictor.py:72: country_data['year'].max()
LastYear(rows) ==
    CHOOSE y \in {rows[i].year : i \in DOMAIN rows} :
        \A i \in DOMAIN rows : rows[i].year <= y

NoForecast == [status |-> "none", predictions |-> <<>>]

NoFeatures == [year |-> 0, year_squared |-> 0, year_cubed |-> 0,
               emissions_lag1 |-> NaN, emissions_lag2 |-> NaN]

\* predictor.py:40-49: fitting the scaler to no rows raises before
\* is_trained is set
Train(df) ==
    /\ UNCHANGED <<procVars, recVars>>
    /\ fc_pc # "loop"
    /\ Len(prepare_features(df)) > 0
    /\ is_trained' = TRUE
    /\ UNCHANGED <<series, years_ahead, fc_pc, step, last_emission,
                   current_features, features_used, predictions, fc_result>>

\* predictor.py:64-77
PredictBegin ==
    /\ UNCHANGED <<procVars, recVars>>
    /\ fc_pc # "loop"
    /\ step' = 1
    /\ predictions' = <<>>
    /\ features_used' = <<>>
    /\ UNCHANGED <<is_trained, series, years_ahead>>
    /\ IF ~is_trained
       THEN /\ fc_pc' = "raised"
            /\ fc_result' = [status |-> "NotTrained", predictions |-> <<>>]
            /\ UNCHANGED <<last_emission, current_features>>
       ELSE LET Xf == prepare_features(series)
            IN IF Len(Xf) = 0
               THEN \* line 69: the scaler rejects an array of 0 samples
                    /\ fc_pc' = "raised"
                    /\ fc_result' = [status |-> "ValueError",
                                     predictions |-> <<>>]
                    /\ UNCHANGED <<last_emission, current_features>>
               ELSE /\ last_emission' = series[Len(series)].co2_emissions
                    /\ current_features' = Xf[Len(Xf)]
                    /\ fc_pc' = "loop"
                    /\ fc_result' = NoForecast

\* range(1, years_ahead): a loop that stops one step early
InRangeShort(year, ahead) == year < ahead

\* predictor.py:79: for year in range(1, years_ahead + 1)
InRange(year, ahead) == year <= ahead

\* predictor.py:92: the year of the entry appended at a step
EntryYear(last_year, year) == last_year + year

\* a lag-2 feature that follows the forecast: the lag-1 feature of the
\* turn before
LagTwoShifted(rows, held) == held.emissions_lag1

\* predictor.py:85: country_data['co2_emissions'].iloc[-2]
LagTwo(rows, held) == rows[Len(rows) - 1].co2_emissions

\* predictor.py:80-97: one turn of the loop
PredictStep ==
    /\ UNCHANGED <<procVars, recVars>>
    /\ fc_pc = "loop"
    /\ InRange(step, years_ahead)
    /\ LET y == LastYear(series) + step
       IN current_features' =
              [year |-> y, year_squared |-> y * y, year_cubed |-> y * y * y,
               emissions_lag1 |-> last_emission,
               emissions_lag2 |-> LagTwo(series, current_features)]
    /\ features_used' = Append(features_used, current_features')
    /\ \E pred \in PredValues :
          /\ predictions' = Append(predictions,
                 [year |-> EntryYear(LastYear(series), step),
                  predicted_emissions |-> pred])
          /\ last_emission' = pred
    /\ step' = step + 1
    /\ UNCHANGED <<is_trained, series, years_ahead, fc_pc, fc_result>>

\* predictor.py:99-102
PredictReturn ==
    /\ UNCHANGED <<procVars, recVars>>
    /\ fc_pc = "loop"
    /\ ~InRange(step, years_ahead)
    /\ fc_pc' = "returned"
    /\ fc_result' = [status |-> "ok", predictions |-> predictions]
    /\ UNCHANGED <<is_trained, series, years_ahead, step, last_emission,
                   current_features, features_used, predictions>>

InitFcIdle ==
    /\ is_trained = FALSE
    /\ series = <<>>
    /\ years_ahead = 0
    /\ fc_pc = "idle"
    /\ step = 0
    /\ last_emission = NaN
    /\ current_features = NoFeatures
    /\ features_used = <<>>
    /\ predictions = <<>>
    /\ fc_result = NoForecast

\* the series and the horizon of the predict calls are drawn here
InitFc ==
    /\ is_trained = FALSE
    /\ series \in SeriesSet
    /\ years_ahead \in 0..MaxHorizon
    /\ fc_pc = "idle"
    /\ step = 0
    /\ last_emission = NaN
    /\ current_features = NoFeatures
    /\ features_used = <<>>
    /\ predictions = <<>>
    /\ fc_result = NoForecast

NextFc ==
    \/ \E df \in {series, TrainingSeries} : Train(df)
    \/ PredictBegin
    \/ PredictStep
    \/ PredictReturn

(***************************************************************************)
(* EmissionRecommendations (ml/recommendations.py).  A recommendation is   *)
(* the rank of its text among the 35 texts of the catalog in Python's      *)
(* string order (1 "Adopt energy-efficient manufacturing processes", ...,  *)
(* 35 "Transition to renewable energy sources"): comparing two ranks is    *)
(* comparing the two texts.  No text occurs twice in the catalog.          *)
(***************************************************************************)
\* recommendations.py:6-28
recommendations ==
    [high_emissions |-> <<11, 19, 24, 16, 6>>,
     medium_emissions |-> <<10, 8, 33, 29, 4>>,
     low_emissions |-> <<20, 17, 28, 31, 7>>]

\* recommendations.py:30-59
industry_specific ==
    [manufacturing |-> <<1, 15, 34, 23, 18>>,
     transportation |-> <<9, 25, 12, 3, 22>>,
     energy |-> <<35, 21, 14, 26, 5>>,
     agriculture |-> <<13, 30, 27, 2, 32>>]

\* the thresholds of lines 80, 82 and 93 (shares are in percent), and the
\* length of the list returned (line 126)
HighThreshold == 10
MediumThreshold == 5
IndustryThreshold == 20
TopN == 5

\* the keys of industry_breakdown, in the order the dict yields them; the
\* last one is not in the catalog
IndustryOrder == <<"manufacturing", "transportation", "energy",
                   "agriculture", "construction">>

\* the shares: none, exactly the threshold, above it
Shares == {0, IndustryThreshold, 25}

Breakdowns ==
    {b \in [Range(IndustryOrder) -> Shares] : b["construction"] # IndustryThreshold}

EmissionValues == {0, MediumThreshold, MediumThreshold + 1, HighThreshold,
                   MaxEmissions}

TrendSet == UNION {[1..n -> {1, 2}] : n \in 0..MaxHist}

\* current_emissions >= 10 taken as high, >= 5 as medium
BandInclusive(ce) ==
    IF ce >= HighThreshold THEN "high_emissions"
    ELSE IF ce >= MediumThreshold THEN "medium_emissions"
    ELSE "low_emissions"

\* recommendations.py:80-85
Band(ce) ==
    IF ce > HighThreshold THEN "high_emissions"
    ELSE IF ce > MediumThreshold THEN "medium_emissions"
    ELSE "low_emissions"

RECURSIVE SumTo(_, _)
SumTo(f, n) == IF n = 0 THEN 0 ELSE f[n] + SumTo(f, n - 1)

\* recommendations.py:77: the slope of the least-squares line through
\* (0, y1), (1, y2), ... is this numerator over a positive denominator
SlopeNumerator(hist) ==
    LET n == Len(hist)
    IN n * SumTo([i \in 1..n |-> (i - 1) * hist[i]], n)
       - SumTo([i \in 1..n |-> i - 1], n) * SumTo(hist, n)

RECURSIVE Concat(_, _)
Concat(lists, n) == IF n = 0 THEN <<>> ELSE Concat(lists, n - 1) \o lists[n]

\* the lists of the industries that contribute 20% or more
IndustryRecsAtLeast(breakdown) ==
    Concat([i \in DOMAIN IndustryOrder |->
               LET industry == IndustryOrder[i]
               IN IF breakdown[industry] >= IndustryThreshold
                     /\ industry \in DOMAIN industry_specific
                  THEN industry_specific[industry]
                  ELSE <<>>],
           Len(IndustryOrder))

\* recommendations.py:91-94
IndustryRecs(breakdown) ==
    Concat([i \in DOMAIN IndustryOrder |->
               LET industry == IndustryOrder[i]
               IN IF breakdown[industry] > IndustryThreshold
                     /\ industry \in DOMAIN industry_specific
                  THEN industry_specific[industry]
                  ELSE <<>>],
           Len(IndustryOrder))

\* the elements of a set in one of the orders a Python set may yield them:
\* ascending or descending, rotated by the seed
SetOrder(S, seed) ==
    LET asc == SortedInts(S)
        n == Len(asc)
        base == IF seed % 2 = 0 THEN asc ELSE [i \in 1..n |-> asc[n + 1 - i]]
    IN [i \in 1..n |-> base[((i - 1 + seed) % n) + 1]]

\* recommendations.py:102-115
Score(rec, emission_level, increasing, industry_recs) ==
    (IF emission_level = "high_emissions" THEN 2
     ELSE IF emission_level = "medium_emissions" THEN 1 ELSE 0)
    + (IF increasing THEN 2 ELSE 0)
    + (IF rec \in Range(industry_recs) THEN 1 ELSE 0)

\* pairs compared by their score alone: equal scores keep the order the set
\* yielded them in
PairLessByScore(a, b) == a[1] < b[1]

\* the order of Python tuples (score, text)
PairLess(a, b) == a[1] < b[1] \/ (a[1] = b[1] /\ a[2] < b[2])

\* whether pair a goes before pair b: sorted(..., reverse=reverse)
Before(a, b, reverse) == IF reverse THEN PairLess(b, a) ELSE PairLess(a, b)

RECURSIVE Insert(_, _, _)
Insert(sorted, p, reverse) ==
    IF sorted = <<>> THEN <<p>>
    ELSE IF Before(p, sorted[1], reverse) THEN <<p>> \o sorted
    ELSE <<sorted[1]>> \o Insert(Tail(sorted), p, reverse)

RECURSIVE Sorted(_, _, _)
Sorted(pairs, n, reverse) ==
    IF n = 0 THEN <<>>
    ELSE Insert(Sorted(pairs, n - 1, reverse), pairs[n], reverse)

\* sorted(zip(...)) without reverse=True: lowest score first
SortedAscending(pairs) == Sorted(pairs, Len(pairs), FALSE)

\* recommendations.py:120: sorted(zip(priority_scores, all_recommendations),
\* reverse=True)
SortedReverse(pairs) == Sorted(pairs, Len(pairs), TRUE)

NoRecommendation ==
    [status |-> "none", emission_level |-> "none", trend |-> "none",
     all_recommendations |-> <<>>, priority_scores |-> <<>>,
     recommendations |-> <<>>]

\* recommendations.py:61-132.  np.polyfit raises on an empty list; on a
\* single value it divides 0 by 0 and hands NaN to lstsq, which raises or
\* returns a NaN slope: either may happen.
get_recommendations(nan_raises) ==
    IF Len(historical_trend) = 0
       \/ (Len(historical_trend) = 1 /\ nan_raises)
    THEN [NoRecommendation EXCEPT !.status = "error"]
    ELSE LET increasing == SlopeNumerator(historical_trend) > 0
             emission_level == Band(current_emissions)
             base_recommendations == recommendations[emission_level]
             industry_recs == IndustryRecs(industry_breakdown)
             all_recommendations ==
                 SetOrder(Range(base_recommendations \o industry_recs),
                          hash_seed)
             priority_scores ==
                 [i \in DOMAIN all_recommendations |->
                     Score(all_recommendations[i], emission_level,
                           increasing, industry_recs)]
             sorted_recs ==
                 SortedReverse([i \in DOMAIN all_recommendations |->
                     <<priority_scores[i], all_recommendations[i]>>])
         IN [status |-> "ok",
             emission_level |-> emission_level,
             trend |-> IF increasing THEN "increasing" ELSE "decreasing",
             all_recommendations |-> all_recommendations,
             priority_scores |-> priority_scores,
             recommendations |->
                 [i \in 1..(IF Len(sorted_recs) < TopN THEN Len(sorted_recs)
                            ELSE TopN) |-> sorted_recs[i][2]]]

GetRecommendations ==
    /\ UNCHANGED <<procVars, fcVars>>
    /\ rec_result.status = "none"
    /\ \E nan_raises \in BOOLEAN :
          rec_result' = get_recommendations(nan_raises)
    /\ UNCHANGED <<current_emissions, historical_trend, industry_breakdown,
                   hash_seed>>

InitRecIdle ==
    /\ current_emissions = 0
    /\ historical_trend = <<>>
    /\ industry_breakdown = [i \in Range(IndustryOrder) |-> 0]
    /\ hash_seed = 0
    /\ rec_result = NoRecommendation

\* the arguments of the call are drawn here
InitRec ==
    /\ current_emissions \in EmissionValues
    /\ historical_trend \in TrendSet
    /\ industry_breakdown \in Breakdowns
    /\ hash_seed \in 0..MaxSeed
    /\ rec_result = NoRecommendation

NextRec == GetRecommendations

Init == InitProc /\ InitFcIdle /\ InitRecIdle

Next == NextProc

Spec == Init /\ [][Next]_vars

InitForecaster == InitProc /\ InitFc /\ InitRecIdle

SpecFc == InitForecaster /\ [][NextFc]_vars

InitRecommender == InitProc /\ InitFcIdle /\ InitRec

SpecRec == InitRecommender /\ [][NextRec]_vars


(***************************************************************************)
(* Claims about the processor and its trainer, checked under Spec.         *)
(***************************************************************************)
\* the steps of train_and_evaluate that can raise
PassSteps == {"prepare_data", "split", "cv_linear", "cv_rf"}

\* the names and ids of the features of a get_emissions_by_year response
FeatureNames(r) ==
    {r.value[i].name : i \in DOMAIN r.value}
    \cup {r.value[i].id : i \in DOMAIN r.value}

\* the model of the given type among <<scaler, linear_model, rf_model>>
Pair(trainer, model_type) ==
    [scaler |-> trainer[1],
     model |-> IF model_type = "linear" THEN trainer[2] ELSE trainer[3]]

\* C1: whatever load_data calls were made, succeeded or failed, no aggregate
\* region name is in get_available_countries() nor is the name or id of a
\* feature of get_emissions_by_year(year), for any year; the same of the
\* responses the two queries returned.
C1_NoAggregateRegions ==
    /\ Range(get_available_countries.value) \cap AggregateSet = {}
    /\ \A y \in Years :
          LET r == get_emissions_by_year(y)
          IN r.status = "ok" => FeatureNames(r) \cap AggregateSet = {}
    /\ response.op = "get_available_countries"
          => Range(response.value) \cap AggregateSet = {}
    /\ (response.op = "get_emissions_by_year" /\ response.status = "ok")
          => FeatureNames(response) \cap AggregateSet = {}

\* C1's case: a source that has the required columns and rows of aggregate
\* regions was loaded, and get_emissions_by_year returned features.
C1_Witness ==
    /\ loaded
    /\ required_columns \subseteq source.columns
    /\ Column(source.rows, "country") \cap AggregateSet # {}
    /\ response.op = "get_emissions_by_year"
    /\ response.status = "ok"
    /\ Len(response.value) > 0
    /\ Len(countries) > 0

\* C2 as stated: when a train_and_evaluate call fails after an earlier pass
\* succeeded, the scaler and the two models are what they were when the
\* call began.
C2_FailedPassKeepsTrainer ==
    (pc = "idle" /\ trained /\ outcome.status = "failed"
        /\ outcome.at \in PassSteps)
    => Trainer = before

\* C3 as stated: predict_emissions fails as long as no train_and_evaluate
\* call has completed.
C3_PredictNeedsCompletedPass ==
    (response.op = "predict_emissions" /\ ~trained)
    => response.status # "ok"

\* C4 as stated: a predict request that arrived during a training pass sees
\* the scaler and model the trainer had before the pass, or those of the
\* completed pass, never a mix.
C4_NoPartialUpdateSeen ==
    (response.op = "predict_emissions" /\ response.queued
        /\ response.status = "ok")
    => \/ response.value = Pair(before, response.arg)
       \/ /\ outcome.status = "ok"
          /\ response.value = Pair(Trainer, response.arg)

\* the metrics named by the claim, of both models
MetricsOf(results) ==
    {results[m][k] : m \in {"linear_regression", "random_forest"},
                     k \in {"r2_score", "rmse", "cv_scores_mean",
                            "cv_scores_std"}}

\* C9 as stated: on data that has the required columns and at least 2
\* complete non-aggregate rows, train_and_evaluate completes and every
\* metric of both models is finite.
C9_TwoRowsGiveFiniteMetrics ==
    (pc = "idle" /\ outcome.at \in PassSteps \cup {"return"}
        /\ required_columns \subseteq data.columns
        /\ Len(prepare_data(data.rows)) >= 2)
    => /\ outcome.status = "ok"
       /\ MetricsOf(outcome.results) = {"finite"}

\* the data-dependent queries of the processor
DataQueries == {"get_available_years", "get_available_countries",
                "get_emissions_by_year", "get_country_timeline",
                "get_emissions_range", "get_model_evaluation",
                "train_models", "save_processed_data"}

\* C10 as stated: before any load_data call has succeeded, every
\* data-dependent query fails with the no-data error.
C10_QueriesNeedLoad ==
    (response.op \in DataQueries /\ ~loaded) => response.status = "NoData"


(***************************************************************************)
(* Claims about CO2Predictor, checked under SpecFc.                        *)
(***************************************************************************)
\* the predict call has ended, and the predictor was trained when it began
PredictEnded == fc_pc \in {"returned", "raised"}
                /\ fc_result.status # "NotTrained"

\* exactly years_ahead entries, of the years last_year+1 .. last_year+years_ahead
HorizonEntries ==
    /\ fc_result.status = "ok"
    /\ Len(fc_result.predictions) = years_ahead
    /\ \A k \in 1..years_ahead :
          fc_result.predictions[k].year = LastYear(series) + k
    /\ \A k \in 1..(years_ahead - 1) :
          fc_result.predictions[k].year < fc_result.predictions[k + 1].year

\* C5 as stated: for a trained predictor, predict returns exactly
\* years_ahead entries of strictly increasing years, for every series and
\* every horizon >= 0.
C5_EverySeries == PredictEnded => HorizonEntries

\* C5 as amended: for a trained predictor and every series of which
\* prepare_features keeps at least one row (a row whose emission and the
\* two emissions before it are present, so a series of 3 rows or more),
\* predict returns exactly years_ahead entries, of the years last_year+1 ..
\* last_year+years_ahead in that order; for any other series it raises.
C5_SeriesWithFeatures ==
    PredictEnded =>
        IF Len(prepare_features(series)) > 0
        THEN HorizonEntries
        ELSE fc_result.status = "ValueError"

\* C5's case: a predict call over a series with a missing value returned
\* the whole horizon, of two years or more.
C5_Witness ==
    /\ fc_pc = "returned"
    /\ fc_result.status = "ok"
    /\ years_ahead >= 2
    /\ Len(fc_result.predictions) = years_ahead
    /\ \E i \in DOMAIN series : series[i].co2_emissions = NaN


\* C12: at forecast step k the lag-1 feature is the last observed emission
\* when k = 1 and the prediction of step k-1 when k > 1; the lag-2 feature
\* is the second-to-last observed emission at every step, never a
\* predicted value.
C12_LagFeatures ==
    /\ Len(features_used) = Len(predictions)
    /\ \A k \in DOMAIN features_used :
          /\ k <= years_ahead
          /\ features_used[k].emissions_lag1 =
                IF k = 1 THEN series[Len(series)].co2_emissions
                ELSE predictions[k - 1].predicted_emissions
          /\ features_used[k].emissions_lag2 =
                series[Len(series) - 1].co2_emissions
          /\ features_used[k].emissions_lag2 \in Observed
          /\ features_used[k].emissions_lag2 \notin PredValues

\* C12's case: a forecast of two steps or more has returned, over a series
\* whose last two emissions differ; the second step was fed the first
\* step's prediction as lag-1.
C12_Witness ==
    /\ fc_pc = "returned"
    /\ Len(features_used) >= 2
    /\ series[Len(series)].co2_emissions
          # series[Len(series) - 1].co2_emissions
    /\ features_used[2].emissions_lag1 = predictions[1].predicted_emissions
    /\ features_used[2].emissions_lag1 \in PredValues


(***************************************************************************)
(* Claims about get_recommendations, checked under SpecRec.                *)
(***************************************************************************)
\* C6: current_emissions > 10 is classified high, > 5 and <= 10 medium,
\* <= 5 low; exactly 10 is medium and exactly 5 is low.
C6_Bands ==
    rec_result.status = "ok" =>
        /\ current_emissions > 10
              => rec_result.emission_level = "high_emissions"
        /\ (current_emissions > 5 /\ current_emissions <= 10)
              => rec_result.emission_level = "medium_emissions"
        /\ current_emissions <= 5
              => rec_result.emission_level = "low_emissions"
        /\ current_emissions = 10
              => rec_result.emission_level = "medium_emissions"
        /\ current_emissions = 5
              => rec_result.emission_level = "low_emissions"

\* C6's case: a call with current_emissions exactly 10 returned.
C6_Witness ==
    /\ rec_result.status = "ok"
    /\ current_emissions = 10
    /\ rec_result.emission_level = "medium_emissions"

\* the catalog industries of industry_breakdown whose share is above 20%
Qualifying ==
    {ind \in DOMAIN industry_specific : industry_breakdown[ind] > 20}

\* the score the claim gives a candidate
ClaimedScore(rec) ==
    (IF current_emissions > 10 THEN 2
     ELSE IF current_emissions > 5 THEN 1 ELSE 0)
    + (IF SlopeNumerator(historical_trend) > 0 THEN 2 ELSE 0)
    + (IF \E ind \in Qualifying : rec \in Range(industry_specific[ind])
       THEN 1 ELSE 0)

Returned == Range(rec_result.recommendations)

Candidates == Range(rec_result.all_recommendations)

\* C7: every deduplicated candidate is scored band (2, 1, 0) + 2 for a
\* positive slope + 1 for an industry-specific candidate; at most 5
\* candidates are returned, in non-increasing score order, and no candidate
\* left out scores strictly higher than one returned.
C7_ScoredTopFive ==
    rec_result.status = "ok" =>
        /\ Cardinality(Candidates) = Len(rec_result.all_recommendations)
        /\ \A i \in DOMAIN rec_result.all_recommendations :
              rec_result.priority_scores[i]
                  = ClaimedScore(rec_result.all_recommendations[i])
        /\ Len(rec_result.recommendations) <= 5
        /\ Returned \subseteq Candidates
        /\ Cardinality(Returned) = Len(rec_result.recommendations)
        /\ \A i, j \in DOMAIN rec_result.recommendations :
              i < j => ClaimedScore(rec_result.recommendations[i])
                          >= ClaimedScore(rec_result.recommendations[j])
        /\ \A c \in Candidates \ Returned : \A r \in Returned :
              ClaimedScore(c) <= ClaimedScore(r)

\* C7's case: more than 5 candidates of two different scores, high band,
\* increasing trend; a candidate of the lower score was left out.
C7_Witness ==
    /\ rec_result.status = "ok"
    /\ rec_result.emission_level = "high_emissions"
    /\ rec_result.trend = "increasing"
    /\ Len(rec_result.all_recommendations) > 5
    /\ Len(rec_result.recommendations) = 5
    /\ \E c \in Candidates \ Returned : \E r \in Returned :
          ClaimedScore(c) < ClaimedScore(r)

Represented(ind) == Returned \cap Range(industry_specific[ind]) # {}

\* C8 as stated: every catalog industry whose share is above 0.20 has at
\* least one item of its list among the recommendations returned, and at
\* most 5 are returned.
C8_EveryIndustryRepresented ==
    rec_result.status = "ok" =>
        /\ \A ind \in Qualifying : Represented(ind)
        /\ Len(rec_result.recommendations) <= 5

\* C8 as amended: every catalog industry whose share is above 0.20 has at
\* least one item of its list among the recommendations returned, except
\* transportation when energy and agriculture are above 0.20 too: then no
\* transportation item is returned.  At most 5 are returned.
C8_IndustryRepresentedUnlessCrowdedOut ==
    rec_result.status = "ok" =>
        /\ \A ind \in Qualifying :
              IF ind = "transportation"
                 /\ {"energy", "agriculture"} \subseteq Qualifying
              THEN ~Represented(ind)
              ELSE Represented(ind)
        /\ Len(rec_result.recommendations) <= 5

\* C8's case: three industries are above 0.20 and each has an item among
\* the 5 returned.
C8_Witness ==
    /\ rec_result.status = "ok"
    /\ Cardinality(Qualifying) = 3
    /\ \A ind \in Qualifying : Represented(ind)
    /\ Len(rec_result.recommendations) = 5


\* the list a call returns when the deduplicating set yields the
\* candidates in the given order; score[c] is the score of candidate c
RankedFrom(order, score) ==
    LET sorted_recs == SortedReverse([i \in DOMAIN order |->
                           <<score[order[i]], order[i]>>])
    IN [i \in 1..(IF Len(sorted_recs) < 5 THEN Len(sorted_recs) ELSE 5) |->
           sorted_recs[i][2]]

\* the candidates in the opposite order to the one the set yielded
Reversed(order) ==
    [i \in DOMAIN order |-> order[Len(order) + 1 - i]]

\* candidate a ranks above candidate b: the higher score, or the same
\* score and the later text
RanksAbove(a, b, score) ==
    \/ score[a] > score[b]
    \/ score[a] = score[b] /\ a > b

\* C14: the list returned depends on the arguments alone, not on the order
\* the deduplicating set yields the candidates in: it is the candidates
\* ranked by score and, at equal score, by text, cut to five (one list
\* only fits that), and the opposite set order gives the same list.
C14_OrderIndependent ==
    rec_result.status = "ok" =>
        LET score == [c \in Candidates |-> ClaimedScore(c)]
        IN /\ RankedFrom(Reversed(rec_result.all_recommendations), score)
                 = rec_result.recommendations
           /\ \A i, j \in DOMAIN rec_result.recommendations :
                 i < j => RanksAbove(rec_result.recommendations[i],
                                     rec_result.recommendations[j], score)
           /\ \A c \in Candidates \ Returned : \A r \in Returned :
                 RanksAbove(r, c, score)

\* C14's case: the set yielded more than five candidates in another order
\* than the ascending one, candidates of equal score were returned and a
\* candidate of that same score was left out.
C14_Witness ==
    /\ rec_result.status = "ok"
    /\ hash_seed # 0
    /\ rec_result.all_recommendations # SetOrder(Candidates, 0)
    /\ Cardinality(Candidates) > 5
    /\ \E r1, r2 \in Returned : \E c \in Candidates \ Returned :
          /\ r1 # r2
          /\ ClaimedScore(r1) = ClaimedScore(r2)
          /\ ClaimedScore(c) = ClaimedScore(r1)


(***************************************************************************)
(* Further claims about the trainer, checked under Spec.                   *)
(***************************************************************************)
\* a step in which the event loop ran a predict_emissions request
PredictRequestServed ==
    pc = "idle" /\ pc' = "idle" /\ response'.op = "predict_emissions"

\* C11: a predict_emissions call, whatever its model_type, leaves the
\* scaler and both models as they were, so after any number of calls they
\* are those the most recent train_and_evaluate call left; the value it
\* returns is that of the held scaler with the linear model for 'linear'
\* and with the random forest for any other model_type.
C11_PredictLeavesTrainer ==
    [][PredictRequestServed =>
          /\ scaler' = scaler
          /\ linear_model' = linear_model
          /\ rf_model' = rf_model
          /\ response'.status = "ok" =>
                /\ response'.value.scaler = scaler
                /\ response'.arg = "linear"
                      => response'.value.model = linear_model
                /\ response'.arg # "linear"
                      => response'.value.model = rf_model]_vars

\* C11's case: a request with a model_type that is neither 'linear' nor
\* 'random_forest' was answered from the random forest of the last pass.
C11_Witness ==
    /\ trained
    /\ response.op = "predict_emissions"
    /\ response.status = "ok"
    /\ response.arg = "xgboost"
    /\ response.value.model = rf_model
    /\ response.value.scaler = scaler
    /\ linear_model # rf_model

\* the call that ended last was a load_data call, and it failed
LoadFailed ==
    /\ pc = "idle"
    /\ outcome.status = "failed"
    /\ response.op \in {"load_data", "upload_data"}

\* years and countries are the sorted distinct values of the held dataset
ListsOfHeldData ==
    IF data.none
    THEN years = <<>> /\ countries = <<>>
    ELSE /\ {"year", "country"} \subseteq data.columns
         /\ years = SortedInts(Column(data.rows, "year"))
         /\ countries = SortedNames(Column(data.rows, "country"))

\* C13: in every state reachable by load_data calls, failing ones
\* included, years and countries are the sorted distinct year and country
\* values of the dataset held; and a load_data call that failed (on a
\* missing column or in training) left data, years and countries as it
\* found them.
C13_ListsFollowData ==
    /\ ListsOfHeldData
    /\ LoadFailed => ~load_changed

====
